---- MODULE Spec2Model ----
(***************************************************************************)
(* Conversational AI backend (Django app "conversations").                 *)
(*                                                                         *)
(* The module models the persistence state (conversations, messages,       *)
(* analysis records), the request handlers of ConversationViewSet, the      *)
(* post-save hooks of signals.py and the services of ai_module.py.         *)
(*                                                                         *)
(* Text is a sequence of tokens.  Text that a user or a Provider controls  *)
(* is spelled one character per token, so that substring tests and case    *)
(* folding are computed; the literals of the program are one token each.   *)
(* SQL NULL / Python None is NullText, NullInt or "NULL" by column type.   *)
(* An embedding column holding None and one holding [] behave alike in     *)
(* every test of the code ("if conv.embedding", "if embedding"), and both  *)
(* are the empty sequence here.                                            *)
(*                                                                         *)
(* Cosine similarity is kept exact: a score is the pair (num, den2)        *)
(* standing for num / sqrt(den2); floating-point rounding is not modelled. *)
(***************************************************************************)
EXTENDS Integers, Sequences, FiniteSets, TLC

\* ------------------------------------------------------------------ bounds
MaxConvs == 1
MaxTime == 2
MaxMsgs == 2
MaxHookDepth == 2
NumSearchConvs == 2

\* ------------------------------------------------------- program constants
NullInt == -1
MaxContextMessages == 20
ExcerptLength == 150
NullText == <<"NULL">>

\* ------------------------------------------------------------ text helpers
UpperCase == <<"A","B","C","D","E","F","G","H","I","J","K","L","M",
               "N","O","P","Q","R","S","T","U","V","W","X","Y","Z">>
LowerCase == <<"a","b","c","d","e","f","g","h","i","j","k","l","m",
               "n","o","p","q","r","s","t","u","v","w","x","y","z">>

\* str.lower() on one character
LowerChar(ch) ==
    IF \E i \in 1..26 : UpperCase[i] = ch
    THEN LowerCase[CHOOSE i \in 1..26 : UpperCase[i] = ch]
    ELSE ch

\* str.lower()
Lower(t) == [i \in 1..Len(t) |-> LowerChar(t[i])]

\* Python's "needle in hay" on strings
Contains(hay, needle) ==
    \E i \in 0..(Len(hay) - Len(needle)) :
        SubSeq(hay, i + 1, i + Len(needle)) = needle

\* s[:n]
Take(t, n) == SubSeq(t, 1, IF Len(t) < n THEN Len(t) ELSE n)

\* str.strip(): leading and trailing whitespace goes
IsSpace(ch) == ch \in {" ", "\n", "\t", "\r"}

RECURSIVE LStrip(_)
LStrip(t) == IF t # <<>> /\ IsSpace(Head(t)) THEN LStrip(Tail(t)) ELSE t

RECURSIVE RStrip(_)
RStrip(t) ==
    IF t # <<>> /\ IsSpace(t[Len(t)])
    THEN RStrip(SubSeq(t, 1, Len(t) - 1)) ELSE t

Strip(t) == RStrip(LStrip(t))

\* ---------------------------------------------------------------- domains
Users == {"alice", "bob"}
\* users are interchangeable: the conversations of the model are alice's
Creators == {"alice"}
ConvIds == 1..MaxConvs
Providers == {"openai", "gemini", "lm_studio"}
Statuses == {"active", "ended", "archived"}
Sentiments == {"positive", "neutral", "negative", "mixed"}

\* titles a client may give
Titles == { <<"t","r","i","p">> }

\* message contents a client may send
Contents == { <<"H","o","w","?">> }

\* replies of the Provider's chat endpoint
ChatReplies == { <<"f","i","n","e">> }

\* outcomes of one HTTP call to the embedding endpoint: a 2xx reply with a
\* vector, or a transport error, a non-2xx status, a reply without a vector
EmbedFailures == [kind : {"transport", "non2xx", "malformed"}, vec : {<<>>}]
EmbedOutcomesOver(vecs) == [kind : {"ok"}, vec : vecs] \cup EmbedFailures

\* the outcomes the post-save hooks draw from
EmbedOutcomes == EmbedOutcomesOver({ <<>>, <<1, 0>> })

\* the outcomes of the three sub-calls of generate_summary, and of the three
\* Provider sub-calls of analyze_conversation, that the end request draws
\* from: all succeed or all fail
OkSummary == <<[kind |-> "ok", text |-> <<"f","i","n","e">>],
               [kind |-> "ok", text |-> <<"[","\"","a","\"","]">>],
               [kind |-> "ok", text |-> <<" ","M","i","x","e","d">>]>>
OkAnalysis == <<[kind |-> "ok", text |-> <<"a",","," ","b">>],
                [kind |-> "ok", text |-> <<"a",","," ","b">>],
                [kind |-> "ok", text |-> <<"a",","," ","b">>]>>
Down == [kind |-> "transport", text |-> <<>>]
EndSummaryOutcomes == { OkSummary, <<Down, Down, Down>> }
EndAnalysisOutcomes == { OkAnalysis, <<Down, Down, Down>> }

\* outcomes of one HTTP call to the chat endpoint
ChatFailures == [kind : {"transport", "non2xx", "malformed"}, text : {<<>>}]
ChatOutcomes == [kind : {"ok"}, text : ChatReplies] \cup ChatFailures

\* ------------------------------------------------------ Provider: embeddings
\* A provider call either raises or returns a value.
Raised == [raised |-> TRUE, vec |-> <<>>]
Returned(v) == [raised |-> FALSE, vec |-> v]

\* LMStudioProvider._simple_embedding: a random vector seeded by hash(text),
\* never empty and never the zero vector.
SimpleEmbedding(text) ==
    IF Len(text) % 2 = 0 THEN <<1, -1>> ELSE <<-1, 1>>

\* OpenAIProvider.get_embeddings: logs and re-raises every failure.
OpenAIGetEmbeddings(o, text) ==
    IF o.kind = "ok" THEN Returned(o.vec) ELSE Raised

\* LMStudioProvider.get_embeddings: the bare except substitutes a vector.
LMStudioGetEmbeddings(o, text) ==
    IF o.kind = "ok" THEN Returned(o.vec) ELSE Returned(SimpleEmbedding(text))

\* GeminiProvider.get_embeddings: [] for a reply without 'embedding' and for
\* every exception.
GeminiGetEmbeddings(o, text) ==
    IF o.kind = "ok" THEN Returned(o.vec) ELSE Returned(<<>>)

\* _get_provider: 'openai', 'gemini', anything else is LM Studio.
GetEmbeddings(prov, o, text) ==
    CASE prov = "openai" -> OpenAIGetEmbeddings(o, text)
      [] prov = "gemini" -> GeminiGetEmbeddings(o, text)
      [] OTHER -> LMStudioGetEmbeddings(o, text)

\* ------------------------------------------------------- EmbeddingService
\* generate_embedding: any exception of the provider becomes [].
GenerateEmbedding(prov, o, text) ==
    LET r == GetEmbeddings(prov, o, text)
    IN  IF r.raised THEN <<>> ELSE r.vec

RECURSIVE Dot(_, _)
Dot(a, b) ==
    IF a = <<>> THEN 0 ELSE Head(a) * Head(b) + Dot(Tail(a), Tail(b))

ZeroScore == [num |-> 0, den2 |-> 1]

\* similarity: cosine of the two vectors, 0.0 when a norm is zero and 0.0
\* when numpy raises (vectors of different lengths).
Similarity(a, b) ==
    LET n1 == Dot(a, a)
        n2 == Dot(b, b)
    IN  IF n1 = 0 \/ n2 = 0 THEN ZeroScore
        ELSE IF Len(a) # Len(b) THEN ZeroScore
        ELSE [num |-> Dot(a, b), den2 |-> n1 * n2]

\* An argument of similarity is a vector or None: [absent, vec].
SimilarityUnchecked(x, y) ==
    IF x.absent \/ y.absent \/ Len(x.vec) # Len(y.vec) THEN ZeroScore
    ELSE [num |-> Dot(x.vec, y.vec),
          den2 |-> Dot(x.vec, x.vec) * Dot(y.vec, y.vec)]

\* similarity on arguments that may be None: numpy raises on None, and the
\* handler of the exception returns 0.0
SimilarityOrNone(x, y) ==
    IF x.absent \/ y.absent THEN ZeroScore ELSE Similarity(x.vec, y.vec)

Abs(x) == IF x < 0 THEN -x ELSE x

\* s > t for scores num / sqrt(den2): x |-> x*|x| is increasing.
ScoreGT(s, t) ==
    s.num * Abs(s.num) * t.den2 > t.num * Abs(t.num) * s.den2

\* QueryEngine.similarity_threshold = 0.5, and the fallback's sentinel score
SimilarityThreshold == [num |-> 1, den2 |-> 4]
FallbackScore == [num |-> 1, den2 |-> 4]

\* ------------------------------------------------------------ Provider: chat
\* get_response of the three providers: a reply text, or an exception for a
\* transport error, a non-2xx status and a reply without the expected keys.
ProviderGetResponse(prov, o) ==
    IF o.kind = "ok" THEN [raised |-> FALSE, text |-> o.text]
    ELSE [raised |-> TRUE, text |-> <<>>]

\* --------------------------------------------------------------- ChatService
QuestionKeywords ==
    { <<"w","h","a","t">>, <<"h","o","w">>, <<"w","h","y">>,
      <<"w","h","e","n">>, <<"w","h","e","r","e">>, <<"w","h","o">>,
      <<"w","h","i","c","h">>, <<"c","a","n">>, <<"c","o","u","l","d">>,
      <<"w","o","u","l","d">>, <<"h","e","l","p">> }

QuestionTemplateHead == "I appreciate your question about '"
QuestionTemplateTail == "...'. Unfortunately, I'm currently experiencing temporary service issues. Please try again in a moment."
PlainTemplate == "Thank you for your message. I'm temporarily unavailable, but I've recorded your message. Please try again shortly."

FallbackNeverQuestion(user_message) == <<PlainTemplate>>

\* ChatService._get_fallback_response
GetFallbackResponse(user_message) ==
    LET user_lower == Lower(user_message)
    IN  IF \E keyword \in QuestionKeywords : Contains(user_lower, keyword)
        THEN <<QuestionTemplateHead>> \o Take(user_message, 50)
                 \o <<QuestionTemplateTail>>
        ELSE <<PlainTemplate>>

SystemPrompt == "You are a helpful AI assistant. Provide clear, concise, and helpful responses."

\* Message.Sender.AI -> assistant, anything else -> user
RoleOf(sender) == IF sender = "ai" THEN "assistant" ELSE "user"

OldestN(s, n) == SubSeq(s, 1, IF Len(s) < n THEN Len(s) ELSE n)

\* the last n elements of a sequence, in order
LastN(s, n) == IF Len(s) <= n THEN s ELSE SubSeq(s, Len(s) - n + 1, Len(s))

\* ChatService._build_context: the system message, then the
\* max_context_messages newest stored messages, oldest first.
BuildContext(stored) ==
    LET recent == LastN(stored, MaxContextMessages)
    IN  <<[role |-> "system", content |-> <<SystemPrompt>>]>>
        \o [i \in 1..Len(recent) |->
                [role |-> RoleOf(recent[i].sender),
                 content |-> recent[i].content]]

ChatGetResponseNoFallback(prov, o, stored, user_content) ==
    LET r == ProviderGetResponse(prov, o)
    IN  [context |-> BuildContext(stored)
                     \o <<[role |-> "user", content |-> user_content]>>,
         failed |-> r.raised,
         text |-> IF r.raised THEN <<>> ELSE r.text]

\* ChatService.get_response: context plus the new user message goes to the
\* provider; every exception turns into the fallback response.
ChatGetResponse(prov, o, stored, user_content) ==
    LET messages == BuildContext(stored)
                    \o <<[role |-> "user", content |-> user_content]>>
        r == ProviderGetResponse(prov, o)
    IN  [context |-> messages,
         failed |-> r.raised,
         text |-> IF r.raised THEN GetFallbackResponse(user_content)
                  ELSE r.text]

\* ------------------------------------------------------------ reply parsing
\* str.split(sep) on a one-character separator
RECURSIVE Split(_, _)
Split(t, sep) ==
    IF \E i \in 1..Len(t) : t[i] = sep
    THEN LET i == CHOOSE k \in 1..Len(t) :
                      t[k] = sep /\ \A j \in 1..(k - 1) : t[j] # sep
         IN  <<SubSeq(t, 1, i - 1)>> \o Split(SubSeq(t, i + 1, Len(t)), sep)
    ELSE <<t>>

RECURSIVE SelectNonEmpty(_)
SelectNonEmpty(parts) ==
    IF parts = <<>> THEN <<>>
    ELSE IF Head(parts) = <<>> THEN SelectNonEmpty(Tail(parts))
    ELSE <<Head(parts)>> \o SelectNonEmpty(Tail(parts))

\* [x.strip() for x in response.split(sep) if x.strip()]
SplitAndTrim(t, sep) ==
    LET parts == Split(t, sep)
    IN  SelectNonEmpty([i \in 1..Len(parts) |-> Strip(parts[i])])

Digits == {"0", "1", "2", "3", "4", "5", "6", "7", "8", "9"}

\* a JSON string literal without escapes
IsJsonString(t) ==
    /\ Len(t) >= 2
    /\ t[1] = "\"" /\ t[Len(t)] = "\""
    /\ \A i \in 2..(Len(t) - 1) : t[i] \notin {"\"", "\\"}

IsJsonNumber(t) == t # <<>> /\ \A i \in 1..Len(t) : t[i] \in Digits

Unquote(t) == SubSeq(t, 2, Len(t) - 1)

\* the elements of a JSON array of string literals (no comma inside them)
ArrayParts(t) ==
    LET inner == Strip(SubSeq(t, 2, Len(t) - 1))
        parts == Split(inner, ",")
    IN  IF inner = <<>> THEN <<>>
        ELSE [i \in 1..Len(parts) |-> Strip(parts[i])]

IsJsonArray(t) ==
    /\ Len(t) >= 2
    /\ t[1] = "[" /\ t[Len(t)] = "]"
    /\ \A i \in 1..Len(ArrayParts(t)) : IsJsonString(ArrayParts(t)[i])

\* A decoded value: kind "list" carries its elements in items; a value that
\* is not a list (a string or a number) carries its source text as the one
\* element of items.
ListValue(items) == [kind |-> "list", items |-> items]

\* json.loads on the subset of JSON the replies of the model use: arrays of
\* strings, one string, one number.  ok = FALSE stands for the decode error.
JsonLoads(t) ==
    LET body == Strip(t)
    IN  IF IsJsonArray(body)
        THEN [ok |-> TRUE,
              value |-> ListValue([i \in 1..Len(ArrayParts(body)) |->
                                       Unquote(ArrayParts(body)[i])])]
        ELSE IF IsJsonString(body)
        THEN [ok |-> TRUE,
              value |-> [kind |-> "string", items |-> <<Unquote(body)>>]]
        ELSE IF IsJsonNumber(body)
        THEN [ok |-> TRUE, value |-> [kind |-> "number", items |-> <<body>>]]
        ELSE [ok |-> FALSE, value |-> ListValue(<<>>)]

\* try: json.loads(response) / except: split on sep and trim
ParseListReply(t, sep) ==
    IF JsonLoads(t).ok THEN JsonLoads(t).value
    ELSE ListValue(SplitAndTrim(t, sep))

\* ----------------------------------------------------- ConversationSummarizer
NoMessagesSummary == "No messages in conversation."
UnableSummary == "Unable to generate summary."

\* _generate_summary_text
GenerateSummaryText(prov, o) ==
    LET r == ProviderGetResponse(prov, o)
    IN  IF r.raised THEN <<UnableSummary>> ELSE r.text

\* _extract_key_points
ExtractKeyPoints(prov, o) ==
    LET r == ProviderGetResponse(prov, o)
    IN  IF r.raised THEN ListValue(<<>>) ELSE ParseListReply(r.text, "\n")

SentimentLabelUnchecked(t) ==
    CASE t = <<"p","o","s","i","t","i","v","e">> -> "positive"
      [] t = <<"n","e","g","a","t","i","v","e">> -> "negative"
      [] t = <<"n","e","u","t","r","a","l">> -> "neutral"
      [] t = <<"m","i","x","e","d">> -> "mixed"
      [] OTHER -> "other"

SentimentLabel(t) ==
    CASE t = <<"p","o","s","i","t","i","v","e">> -> "positive"
      [] t = <<"n","e","g","a","t","i","v","e">> -> "negative"
      [] t = <<"n","e","u","t","r","a","l">> -> "neutral"
      [] t = <<"m","i","x","e","d">> -> "mixed"
      [] OTHER -> "neutral"

\* _analyze_sentiment
AnalyzeSentiment(prov, o) ==
    LET r == ProviderGetResponse(prov, o)
    IN  IF r.raised THEN "neutral" ELSE SentimentLabel(Lower(Strip(r.text)))

GenerateSummaryFailsTogether(prov, stored, o1, o2, o3) ==
    IF stored = <<>>
    THEN [summary |-> <<NoMessagesSummary>>, key_points |-> ListValue(<<>>),
          sentiment |-> "neutral", calls |-> 0]
    ELSE IF o1.kind # "ok"
    THEN [summary |-> <<UnableSummary>>, key_points |-> ListValue(<<>>),
          sentiment |-> "neutral", calls |-> 1]
    ELSE [summary |-> GenerateSummaryText(prov, o1),
          key_points |-> ExtractKeyPoints(prov, o2),
          sentiment |-> AnalyzeSentiment(prov, o3),
          calls |-> 3]

GenerateSummaryAlwaysCalls(prov, stored, o1, o2, o3) ==
    [summary |-> GenerateSummaryText(prov, o1),
     key_points |-> ExtractKeyPoints(prov, o2),
     sentiment |-> AnalyzeSentiment(prov, o3),
     calls |-> 3]

\* generate_summary: the fixed result for a conversation without messages,
\* otherwise the three sub-calls, each with its own default.
GenerateSummary(prov, stored, o1, o2, o3) ==
    IF stored = <<>>
    THEN [summary |-> <<NoMessagesSummary>>,
          key_points |-> ListValue(<<>>),
          sentiment |-> "neutral",
          calls |-> 0]
    ELSE [summary |-> GenerateSummaryText(prov, o1),
          key_points |-> ExtractKeyPoints(prov, o2),
          sentiment |-> AnalyzeSentiment(prov, o3),
          calls |-> 3]

\* ------------------------------------------------- QueryEngine: analysis
\* _extract_topics, _extract_entities, _extract_action_items
ExtractList(prov, o) ==
    LET r == ProviderGetResponse(prov, o)
    IN  IF r.raised THEN ListValue(<<>>) ELSE ParseListReply(r.text, ",")

RECURSIVE ExtractQuestions(_)
\* _extract_questions
ExtractQuestions(stored) ==
    IF stored = <<>> THEN <<>>
    ELSE (IF Head(stored).sender = "user" /\ Contains(Head(stored).content, <<"?">>)
          THEN <<Head(stored).content>> ELSE <<>>)
         \o ExtractQuestions(Tail(stored))

EmptyAnalysis == [empty |-> TRUE]

AnalyzeConversationAllOrNothing(prov, stored, o1, o2, o3) ==
    IF o1.kind # "ok" \/ o2.kind # "ok" \/ o3.kind # "ok"
       \/ ExtractList(prov, o1).kind = "number"
    THEN EmptyAnalysis
    ELSE [empty |-> FALSE,
          topics |-> ExtractList(prov, o1),
          entities |-> ExtractList(prov, o2),
          keywords |-> ExtractList(prov, o1),
          action_items |-> ExtractList(prov, o3),
          questions_asked |-> ExtractQuestions(stored),
          sentiment_scores |-> "overall: 0.5",
          intent |-> "general_conversation"]

\* analyze_conversation: topics[:5] raises for a number, and the handler of
\* the top-level exception returns the empty mapping.
AnalyzeConversation(prov, stored, o1, o2, o3) ==
    LET topics == ExtractList(prov, o1)
        entities == ExtractList(prov, o2)
        action_items == ExtractList(prov, o3)
    IN  IF topics.kind = "number" THEN EmptyAnalysis
        ELSE [empty |-> FALSE,
              topics |-> topics,
              entities |-> entities,
              keywords |-> IF topics.kind = "list"
                           THEN ListValue(Take(topics.items, 5))
                           ELSE [kind |-> "string",
                                 items |-> <<Take(topics.items[1], 5)>>],
              action_items |-> action_items,
              questions_asked |-> ExtractQuestions(stored),
              sentiment_scores |-> "overall: 0.5",
              intent |-> "general_conversation"]

\* ---------------------------------- QueryEngine: the answer to a query
NoRelevantMessage == "No relevant conversations found for your query."
UnableMessage == "Unable to generate response. Please try again."

GenerateIntelligenceResponseUnguarded(prov, query, search_results, o) ==
    LET r == ProviderGetResponse(prov, o)
    IN  [text |-> IF search_results = <<>> THEN <<NoRelevantMessage>> ELSE r.text,
         calls |-> 1]

\* generate_intelligence_response: the fixed message for no results, else
\* one call of the provider, whose failure gives the other fixed message
GenerateIntelligenceResponse(prov, query, search_results, o) ==
    IF search_results = <<>>
    THEN [text |-> <<NoRelevantMessage>>, calls |-> 0]
    ELSE LET r == ProviderGetResponse(prov, o)
         IN  [text |-> IF r.raised THEN <<UnableMessage>> ELSE r.text,
              calls |-> 1]

\* ------------------------------------------------------------------- state
VARIABLES
    provider,   \* settings.AI_PROVIDER, fixed for a deployment
    convs,      \* table Conversation: id -> row
    msgs,       \* table Message: conversation id -> rows ordered by created_at
    analysis,   \* table ConversationAnalysis: conversation id -> row
    everEnded,  \* history: conversations whose stored status was ever 'ended'
    req,        \* the request each worker is handling, and where it stands
    sr,         \* a call of QueryEngine.search_conversations
    call,       \* a call of a service on its own, outside a request
    audit       \* table SearchQuery: the rows in the order they were created

vars == <<provider, convs, msgs, analysis, everEnded, req, sr, call, audit>>

Procs == {"w1", "w2"}
SeqProcs == {"w1"}

\* Conversation defaults of models.py
NoConv ==
    [exists |-> FALSE, user |-> "", title |-> <<>>, status |-> "active",
     started_at |-> NullInt, ended_at |-> NullInt, summary |-> NullText,
     key_points |-> ListValue(<<>>), sentiment |-> "NULL",
     duration |-> NullInt, embedding |-> <<>>]

NoAnalysis == [present |-> FALSE]

\* ConversationAnalysis defaults of models.py
DefaultAnalysis ==
    [present |-> TRUE, topics |-> ListValue(<<>>), entities |-> ListValue(<<>>),
     keywords |-> ListValue(<<>>), action_items |-> ListValue(<<>>),
     questions_asked |-> <<>>, sentiment_scores |-> "{}", intent |-> ""]

NoSummaryData ==
    [summary |-> NullText, key_points |-> ListValue(<<>>),
     sentiment |-> "NULL", calls |-> 0]

Idle ==
    [op |-> "none", pc |-> "idle", user |-> "", conv |-> 0, inst |-> NoConv,
     cont |-> "done", depth |-> 0, gen |-> FALSE, content |-> <<>>,
     reply |-> <<>>, chat_failed |-> FALSE, calls |-> 0, status |-> 0,
     sd |-> NoSummaryData, seen |-> 0, summarized |-> FALSE,
     hook |-> "none", base |-> 0, context |-> <<>>]

NoSearch ==
    [called |-> FALSE, user |-> "", query |-> <<>>, date_from |-> NullInt,
     date_to |-> NullInt, limit |-> 0, outcome |-> [kind |-> "none", vec |-> <<>>],
     prov_result |-> Returned(<<>>), branch |-> "none", similarity_calls |-> 0,
     results |-> <<>>]

NoCall == [fn |-> "none", done |-> FALSE]

\* a worker takes a new request only when it has none in progress
Free(p) == req[p].pc \in {"idle", "done"}

\* the request a handler starts from
NewReq(op, user, c) ==
    [Idle EXCEPT !.op = op, !.user = user, !.conv = c]

\* the response of a finished request
Respond(r, code) == [r EXCEPT !.pc = "done", !.status = code]

\* get_object(): the row of the caller's own conversation, else 404
Found(user, c) == convs[c].exists /\ convs[c].user = user

Init ==
    /\ provider \in Providers
    /\ convs = [c \in ConvIds |-> NoConv]
    /\ msgs = [c \in ConvIds |-> <<>>]
    /\ analysis = [c \in ConvIds |-> NoAnalysis]
    /\ everEnded = {}
    /\ req = [p \in Procs |-> Idle]
    /\ sr = NoSearch
    /\ call = NoCall
    /\ audit = <<>>

\* ------------------------------------------------------------ post-save hooks
\* f"{instance.title} {instance.summary}"
TextToEmbed(inst) ==
    inst.title \o <<" ">>
    \o (IF inst.summary = NullText THEN <<"N","o","n","e">> ELSE inst.summary)

HookEffectUnguarded(inst, embedding) ==
    [inst |-> [inst EXCEPT !.embedding = embedding], saved |-> TRUE]

\* "if embedding: instance.embedding = embedding; instance.save(
\* update_fields=['embedding'])" of both hooks
HookEffect(inst, embedding) ==
    IF embedding # <<>>
    THEN [inst |-> [inst EXCEPT !.embedding = embedding], saved |-> TRUE]
    ELSE [inst |-> inst, saved |-> FALSE]

\* generate_conversation_embedding runs after a save that did not create the
\* row and left the instance 'ended'; otherwise the save returns.
AfterSave(r, inst, cont) ==
    IF inst.status = "ended"
    THEN [r EXCEPT !.inst = inst, !.pc = "hook", !.depth = 1, !.cont = cont]
    ELSE IF cont = "done" THEN Respond([r EXCEPT !.inst = inst], 200)
    ELSE [r EXCEPT !.inst = inst, !.pc = cont]

\* the hook returns to the code after the save that started it
HookReturn(r, how) ==
    IF r.cont = "done"
    THEN Respond([r EXCEPT !.depth = 0, !.hook = how], 200)
    ELSE [r EXCEPT !.pc = r.cont, !.depth = 0, !.hook = how]

\* One activation of generate_conversation_embedding.  A non-empty embedding
\* is saved with update_fields=['embedding'], and that save sends post_save
\* again: the next activation runs inside this one.  At the interpreter's
\* recursion limit the RecursionError is caught by "except Exception" and
\* the activations return.
ConversationHook(p) ==
    /\ req[p].pc = "hook"
    /\ LET r == req[p]
           c == r.conv
       IN  IF r.depth > MaxHookDepth
           THEN /\ req' = [req EXCEPT ![p] = HookReturn(r, "overflow")]
                /\ UNCHANGED convs
           ELSE \E o \in EmbedOutcomes :
                  LET embedding == GenerateEmbedding(provider, o, TextToEmbed(r.inst))
                      h == HookEffect(r.inst, embedding)
                      called == [r EXCEPT !.inst = h.inst, !.calls = r.calls + 1]
                      how == IF embedding # <<>> THEN "stored" ELSE "empty"
                  IN  IF h.saved
                      THEN /\ convs' = [convs EXCEPT ![c].embedding = h.inst.embedding]
                           /\ req' = [req EXCEPT ![p] =
                                        [called EXCEPT !.depth = r.depth + 1,
                                                       !.hook = how]]
                      ELSE /\ UNCHANGED convs
                           /\ req' = [req EXCEPT ![p] = HookReturn(called, how)]
    /\ UNCHANGED <<provider, msgs, analysis, everEnded, sr, call, audit>>

\* Message.objects.create followed by generate_message_embedding: the row is
\* inserted, then the embedding is stored when it is not empty.  The hook's
\* own save has created = False and does nothing more.
CreateMessage(rows, sender, content, o) ==
    LET row == [sender |-> sender, content |-> content, embedding |-> <<>>]
    IN  Append(rows, HookEffect(row, GenerateEmbedding(provider, o, content)).inst)

\* -------------------------------------------------------- ConversationViewSet
\* timezone.now(): a conversation starts at StartTime, and every later
\* reading of the clock is some later time
StartTime == 0
LaterTimes == 1..MaxTime

\* POST /conversations/: ConversationCreateSerializer keeps the stripped,
\* non-blank title; perform_create saves the row for the caller.  The save
\* creates the row, so the conversation hook does nothing.
Create(p, user, title) ==
    /\ Free(p)
    /\ \E c \in ConvIds :
         /\ ~convs[c].exists
         /\ \A d \in ConvIds : d < c => convs[d].exists
         /\ convs' = [convs EXCEPT ![c] =
                        [NoConv EXCEPT !.exists = TRUE, !.user = user,
                                       !.title = Strip(title),
                                       !.started_at = StartTime]]
         /\ req' = [req EXCEPT ![p] = Respond(NewReq("create", user, c), 201)]
    /\ UNCHANGED <<provider, msgs, analysis, everEnded, sr, call, audit>>

\* The fields ConversationListSerializer lets a client write, each either
\* left out of the request ("keep", no duration) or given.
PatchFields ==
    [status : Statuses \cup {"keep"},
     sentiment : {"keep", "positive", "NULL"},
     duration : {{}, {0}}]

\* the requests of the model change one field
Patches ==
    { f \in PatchFields :
        (IF f.status = "keep" THEN 0 ELSE 1)
        + (IF f.sentiment = "keep" THEN 0 ELSE 1)
        + (IF f.duration = {} THEN 0 ELSE 1) = 1 }

ApplyPatch(inst, patch) ==
    [inst EXCEPT
       !.status = IF patch.status = "keep" THEN @ ELSE patch.status,
       !.sentiment = IF patch.sentiment = "keep" THEN @ ELSE patch.sentiment,
       !.duration = IF patch.duration = {} THEN @
                    ELSE CHOOSE d \in patch.duration : TRUE]

\* PUT/PATCH /conversations/{id}/: get_serializer_class gives
\* ConversationListSerializer, whose read_only_fields are id, started_at and
\* ended_at; serializer.save() sets the validated fields and saves the row.
Update(p, user, c, patch) ==
    /\ Free(p)
    /\ LET r == NewReq("update", user, c)
       IN  IF ~Found(user, c)
           THEN /\ req' = [req EXCEPT ![p] = Respond(r, 404)]
                /\ UNCHANGED <<convs, everEnded>>
           ELSE LET inst == ApplyPatch(convs[c], patch)
                IN  /\ convs' = [convs EXCEPT ![c] = inst]
                    /\ everEnded' = IF inst.status = "ended"
                                    THEN everEnded \cup {c} ELSE everEnded
                    /\ req' = [req EXCEPT ![p] = AfterSave(r, inst, "done")]
    /\ UNCHANGED <<provider, msgs, analysis, sr, call, audit>>

\* Conversation.is_active
IsActive(inst) == inst.status = "active"

\* Conversation.end_conversation, up to its save
EndConversation(inst, t) ==
    [inst EXCEPT !.status = "ended", !.ended_at = t,
                 !.duration = IF inst.started_at # NullInt
                              THEN t - inst.started_at ELSE @]

EndLoadSkipsCheck(p, user, c, gen) ==
    /\ Free(p)
    /\ Found(user, c)
    /\ req' = [req EXCEPT ![p] =
                 [NewReq("end", user, c) EXCEPT !.inst = convs[c], !.gen = gen,
                                                !.pc = "end_save"]]
    /\ UNCHANGED <<provider, convs, msgs, analysis, everEnded, sr, call, audit>>

\* POST /conversations/{id}/end/, lines 110-119: load the row, refuse a
\* conversation that is not active, read generate_summary.
EndLoad(p, user, c, gen) ==
    /\ Free(p)
    /\ LET r == NewReq("end", user, c)
       IN  req' = [req EXCEPT ![p] =
                     IF ~Found(user, c) THEN Respond(r, 404)
                     ELSE IF ~IsActive(convs[c]) THEN Respond(r, 400)
                     ELSE [r EXCEPT !.inst = convs[c], !.gen = gen,
                                    !.pc = "end_save"]]
    /\ UNCHANGED <<provider, convs, msgs, analysis, everEnded, sr, call, audit>>

\* end, line 123: end_conversation() saves the instance; the save starts the
\* conversation hook.
EndSave(p) ==
    /\ req[p].pc = "end_save"
    /\ \E t \in LaterTimes :
         LET r == req[p]
             inst == EndConversation(r.inst, t)
         IN  /\ convs' = [convs EXCEPT ![r.conv] = inst]
             /\ everEnded' = everEnded \cup {r.conv}
             /\ req' = [req EXCEPT ![p] =
                          AfterSave(r, inst, IF r.gen THEN "summarize" ELSE "done")]
    /\ UNCHANGED <<provider, msgs, analysis, sr, call, audit>>

\* end, lines 127-134: the summary of the stored messages goes into the
\* instance, and the instance is saved, which starts the hook again.
Summarize(p) ==
    /\ req[p].pc = "summarize"
    /\ \E o \in EndSummaryOutcomes :
         LET r == req[p]
             sd == GenerateSummary(provider, msgs[r.conv], o[1], o[2], o[3])
             inst == [r.inst EXCEPT !.summary = sd.summary,
                                    !.key_points = sd.key_points,
                                    !.sentiment = sd.sentiment]
         IN  /\ convs' = [convs EXCEPT ![r.conv] = inst]
             /\ req' = [req EXCEPT ![p] =
                          AfterSave([r EXCEPT !.sd = sd,
                                              !.seen = Len(msgs[r.conv]),
                                              !.summarized = TRUE,
                                              !.calls = r.calls + sd.calls],
                                    inst, "analyze")]
    /\ UNCHANGED <<provider, msgs, analysis, everEnded, sr, call, audit>>

\* update_or_create(conversation=..., defaults=analysis_data)
UpdateOrCreate(row, data) ==
    IF data.empty THEN (IF row.present THEN row ELSE DefaultAnalysis)
    ELSE [present |-> TRUE, topics |-> data.topics, entities |-> data.entities,
          keywords |-> data.keywords, action_items |-> data.action_items,
          questions_asked |-> data.questions_asked,
          sentiment_scores |-> data.sentiment_scores, intent |-> data.intent]

\* end, lines 137-149: the analysis of the stored messages is upserted and
\* the request answers 200.
Analyze(p) ==
    /\ req[p].pc = "analyze"
    /\ \E o \in EndAnalysisOutcomes :
         LET r == req[p]
             data == AnalyzeConversation(provider, msgs[r.conv], o[1], o[2], o[3])
         IN  /\ analysis' = [analysis EXCEPT ![r.conv] = UpdateOrCreate(@, data)]
             /\ req' = [req EXCEPT ![p] =
                          Respond([r EXCEPT !.calls = r.calls + 3], 200)]
    /\ UNCHANGED <<provider, convs, msgs, everEnded, sr, call, audit>>

\* POST /conversations/{id}/send_message/, lines 170-182: load the row,
\* refuse a conversation that is not active, validate the content.  base
\* is the number of messages stored when the request arrives.
SendLoad(p, user, c, content) ==
    /\ Free(p)
    /\ Len(msgs[c]) + 2 <= MaxMsgs
    /\ LET r == [NewReq("send", user, c) EXCEPT !.base = Len(msgs[c])]
       IN  req' = [req EXCEPT ![p] =
                     IF ~Found(user, c) THEN Respond(r, 404)
                     ELSE IF ~IsActive(convs[c]) THEN Respond(r, 400)
                     ELSE [r EXCEPT !.inst = convs[c],
                                    !.content = Strip(content),
                                    !.pc = "user_msg"]]
    /\ UNCHANGED <<provider, convs, msgs, analysis, everEnded, sr, call, audit>>

\* send_message, lines 185-190: the user message is stored.
SendUserMessage(p) ==
    /\ req[p].pc = "user_msg"
    /\ \E o \in EmbedOutcomes :
         LET r == req[p]
         IN  /\ msgs' = [msgs EXCEPT ![r.conv] =
                           CreateMessage(@, "user", r.content, o)]
             /\ req' = [req EXCEPT ![p] =
                          [r EXCEPT !.pc = "chat", !.calls = r.calls + 1,
                                    !.hook = IF msgs'[r.conv][Len(msgs'[r.conv])].embedding = <<>>
                                             THEN "empty" ELSE "stored"]]
    /\ UNCHANGED <<provider, convs, analysis, everEnded, sr, call, audit>>

\* send_message, lines 193-194: the reply of ChatService, and the messages
\* it passed to the provider.
SendChat(p) ==
    /\ req[p].pc = "chat"
    /\ \E o \in ChatOutcomes :
         LET r == req[p]
             g == ChatGetResponse(provider, o, msgs[r.conv], r.content)
         IN  req' = [req EXCEPT ![p] =
                       [r EXCEPT !.pc = "ai_msg", !.reply = g.text,
                                 !.context = g.context,
                                 !.chat_failed = g.failed,
                                 !.calls = r.calls + 1, !.hook = "none"]]
    /\ UNCHANGED <<provider, convs, msgs, analysis, everEnded, sr, call, audit>>

\* send_message, lines 197-209: the AI message is stored, the answer is 201.
SendAIMessage(p) ==
    /\ req[p].pc = "ai_msg"
    /\ \E o \in EmbedOutcomes :
         LET r == req[p]
         IN  /\ msgs' = [msgs EXCEPT ![r.conv] =
                           CreateMessage(@, "ai", r.reply, o)]
             /\ req' = [req EXCEPT ![p] =
                          Respond([r EXCEPT !.calls = r.calls + 1,
                                            !.hook = IF msgs'[r.conv][Len(msgs'[r.conv])].embedding = <<>>
                                                     THEN "empty" ELSE "stored"],
                                  201)]
    /\ UNCHANGED <<provider, convs, analysis, everEnded, sr, call, audit>>

\* ------------------------------------------------------------ specification
\* One worker: a request is handled to its response before the next starts.
Next ==
    \/ \E p \in SeqProcs, user \in Creators, title \in Titles :
          Create(p, user, title)
    \/ \E p \in SeqProcs, user \in Users, c \in ConvIds, patch \in Patches :
          Update(p, user, c, patch)
    \/ \E p \in SeqProcs, user \in Users, c \in ConvIds, gen \in BOOLEAN :
          EndLoad(p, user, c, gen)
    \/ \E p \in SeqProcs : EndSave(p)
    \/ \E p \in SeqProcs : ConversationHook(p)
    \/ \E p \in SeqProcs : Summarize(p)
    \/ \E p \in SeqProcs : Analyze(p)
    \/ \E p \in SeqProcs, user \in Users, c \in ConvIds, content \in Contents :
          SendLoad(p, user, c, content)
    \/ \E p \in SeqProcs : SendUserMessage(p)
    \/ \E p \in SeqProcs : SendChat(p)
    \/ \E p \in SeqProcs : SendAIMessage(p)

Spec == Init /\ [][Next]_vars

\* Two workers each serve one end or send_message request on one active
\* conversation of alice's at the same time: the steps of their handlers
\* interleave, each load, save and create being one step on the database.
InitConcurrent ==
    /\ provider \in Providers
    /\ convs = [c \in ConvIds |->
                  IF c = 1
                  THEN [NoConv EXCEPT !.exists = TRUE, !.user = "alice",
                                      !.title = <<"t","r","i","p">>,
                                      !.started_at = StartTime]
                  ELSE NoConv]
    /\ msgs = [c \in ConvIds |-> <<>>]
    /\ analysis = [c \in ConvIds |-> NoAnalysis]
    /\ everEnded = {}
    /\ req = [p \in Procs |-> Idle]
    /\ sr = NoSearch
    /\ call = NoCall
    /\ audit = <<>>

NextConcurrent ==
    \/ \E p \in Procs, gen \in BOOLEAN :
          req[p].pc = "idle" /\ EndLoad(p, "alice", 1, gen)
    \/ \E p \in Procs : EndSave(p)
    \/ \E p \in Procs : ConversationHook(p)
    \/ \E p \in Procs : Summarize(p)
    \/ \E p \in Procs : Analyze(p)
    \/ \E p \in Procs, content \in Contents :
          req[p].pc = "idle" /\ SendLoad(p, "alice", 1, content)
    \/ \E p \in Procs : SendUserMessage(p)
    \/ \E p \in Procs : SendChat(p)
    \/ \E p \in Procs : SendAIMessage(p)

SpecConcurrent == InitConcurrent /\ [][NextConcurrent]_vars

\* ------------------------------------------------------- QueryEngine: search
NoSummaryAvailable == "No summary available"

\* the rows of a queryset over Conversation, in Meta.ordering (-started_at)
RECURSIVE OrderByStartedDesc(_)
OrderByStartedDesc(ids) ==
    IF ids = {} THEN <<>>
    ELSE LET first == CHOOSE c \in ids :
                        \A d \in ids :
                            \/ convs[c].started_at > convs[d].started_at
                            \/ convs[c].started_at = convs[d].started_at /\ c >= d
         IN  <<first>> \o OrderByStartedDesc(ids \ {first})

CandidateAnyOwner(c, user, date_from, date_to) ==
    /\ convs[c].exists
    /\ convs[c].status # "archived"
    /\ date_from # NullInt => convs[c].started_at >= date_from
    /\ date_to # NullInt =>
          convs[c].ended_at # NullInt /\ convs[c].ended_at <= date_to

\* filter(user=user).exclude(status=ARCHIVED) and the two date filters; a row
\* without ended_at never satisfies ended_at__lte
Candidate(c, user, date_from, date_to) ==
    /\ convs[c].exists
    /\ convs[c].user = user
    /\ convs[c].status # "archived"
    /\ date_from # NullInt => convs[c].started_at >= date_from
    /\ date_to # NullInt =>
          convs[c].ended_at # NullInt /\ convs[c].ended_at <= date_to

\* title__icontains=query | messages__content__icontains=query
MatchesQuery(c, query) ==
    \/ Contains(Lower(convs[c].title), Lower(query))
    \/ \E i \in 1..Len(msgs[c]) : Contains(Lower(msgs[c][i].content), Lower(query))

\* "x or y" on a nullable text column
OrElse(text, other) == IF text = NullText \/ text = <<>> THEN other ELSE text

\* _extract_excerpt: the first stored message containing the query, cut to
\* ExcerptLength characters
ExtractExcerpt(c, query) ==
    LET hits == { i \in 1..Len(msgs[c]) :
                    Contains(Lower(msgs[c][i].content), Lower(query)) }
    IN  IF hits # {}
        THEN LET excerpt == msgs[c][CHOOSE i \in hits : \A j \in hits : i <= j].content
             IN  IF Len(excerpt) > ExcerptLength
                 THEN Take(excerpt, ExcerptLength) \o <<"...">>
                 ELSE excerpt
        ELSE OrElse(convs[c].summary, <<NoSummaryAvailable>>)

\* The rows of Conversation LEFT OUTER JOIN Message that pass
\* Q(title__icontains=query) | Q(messages__content__icontains=query), as
\* conversation ids: a conversation without messages has one joined row,
\* the others one per message.
RECURSIVE JoinedMatches(_, _)
JoinedMatches(ids, query) ==
    IF ids = <<>> THEN <<>>
    ELSE LET c == Head(ids)
             title_hit == Contains(Lower(convs[c].title), Lower(query))
             hit(i) == Contains(Lower(msgs[c][i].content), Lower(query))
         IN  (IF msgs[c] = <<>>
              THEN (IF title_hit THEN <<c>> ELSE <<>>)
              ELSE SelectSeq([i \in 1..Len(msgs[c]) |->
                                 IF title_hit \/ hit(i) THEN c ELSE 0],
                             LAMBDA x : x # 0))
             \o JoinedMatches(Tail(ids), query)

KeepDuplicates(rows) == rows

\* .distinct(): a row that repeats an earlier one goes
RECURSIVE Distinct(_)
Distinct(rows) ==
    IF rows = <<>> THEN <<>>
    ELSE LET rest == Distinct(SubSeq(rows, 1, Len(rows) - 1))
             last == rows[Len(rows)]
         IN  IF \E i \in 1..Len(rest) : rest[i] = last
             THEN rest ELSE Append(rest, last)

\* _fallback_search
FallbackSearch(user, query, date_from, date_to, limit) ==
    LET found == Distinct(JoinedMatches(
                    OrderByStartedDesc(
                        { c \in DOMAIN convs : Candidate(c, user, date_from, date_to) }),
                    query))
    IN  [i \in 1..Len(Take(found, limit)) |->
            [conversation |-> found[i],
             similarity_score |-> FallbackScore,
             excerpt |-> OrElse(convs[found[i]].summary,
                                ExtractExcerpt(found[i], query))]]

SortKeepsOrder(results) == results

\* results.sort(key=similarity_score, reverse=True): a stable sort
RECURSIVE InsertByScore(_, _)
InsertByScore(x, sorted) ==
    IF sorted = <<>> THEN <<x>>
    ELSE IF ScoreGT(x.similarity_score, Head(sorted).similarity_score)
    THEN <<x>> \o sorted
    ELSE <<Head(sorted)>> \o InsertByScore(x, Tail(sorted))

RECURSIVE SortByScoreDesc(_)
SortByScoreDesc(results) ==
    IF results = <<>> THEN <<>>
    ELSE InsertByScore(results[Len(results)],
                       SortByScoreDesc(SubSeq(results, 1, Len(results) - 1)))

RECURSIVE ScoreCandidatesAtLeast(_, _)
ScoreCandidatesAtLeast(ids, query_embedding) ==
    IF ids = <<>> THEN <<>>
    ELSE LET conv == convs[Head(ids)]
             similarity == Similarity(query_embedding, conv.embedding)
         IN  (IF conv.embedding # <<>> /\ ~ScoreGT(SimilarityThreshold, similarity)
              THEN <<[conversation |-> Head(ids),
                      similarity_score |-> similarity,
                      excerpt |-> OrElse(conv.summary, <<NoSummaryAvailable>>)]>>
              ELSE <<>>)
             \o ScoreCandidatesAtLeast(Tail(ids), query_embedding)

\* lines 600-612: the candidates with a stored embedding whose similarity to
\* the query is above the threshold
RECURSIVE ScoreCandidates(_, _)
ScoreCandidates(ids, query_embedding) ==
    IF ids = <<>> THEN <<>>
    ELSE LET conv == convs[Head(ids)]
             similarity == Similarity(query_embedding, conv.embedding)
         IN  (IF conv.embedding # <<>> /\ ScoreGT(similarity, SimilarityThreshold)
              THEN <<[conversation |-> Head(ids),
                      similarity_score |-> similarity,
                      excerpt |-> OrElse(conv.summary, <<NoSummaryAvailable>>)]>>
              ELSE <<>>)
             \o ScoreCandidates(Tail(ids), query_embedding)

SearchConversationsFallbackOnEmpty(user, query, date_from, date_to, limit, o) ==
    LET query_embedding == GenerateEmbedding(provider, o, query)
        conversations == OrderByStartedDesc(
                            { c \in DOMAIN convs : Candidate(c, user, date_from, date_to) })
        ranked == Take(SortByScoreDesc(
                          ScoreCandidates(conversations, query_embedding)), limit)
    IN  IF query_embedding = <<>> \/ ranked = <<>>
        THEN [branch |-> IF query_embedding = <<>> THEN "fallback" ELSE "embedding",
              similarity_calls |-> 0,
              results |-> FallbackSearch(user, query, date_from, date_to, limit)]
        ELSE [branch |-> "embedding",
              similarity_calls |->
                  Cardinality({ c \in DOMAIN convs :
                                  /\ Candidate(c, user, date_from, date_to)
                                  /\ convs[c].embedding # <<>> }),
              results |-> ranked]

SearchConversationsNoFallback(user, query, date_from, date_to, limit, o) ==
    LET query_embedding == GenerateEmbedding(provider, o, query)
        conversations == OrderByStartedDesc(
                            { c \in DOMAIN convs : Candidate(c, user, date_from, date_to) })
    IN  [branch |-> IF query_embedding = <<>> THEN "fallback" ELSE "embedding",
         similarity_calls |->
             Cardinality({ c \in DOMAIN convs :
                             /\ Candidate(c, user, date_from, date_to)
                             /\ convs[c].embedding # <<>> }),
         results |-> Take(SortByScoreDesc(
                             ScoreCandidates(conversations, query_embedding)),
                          limit)]

\* search_conversations: the fallback for an empty query embedding, else the
\* ranked candidates; similarity_calls counts the calls of
\* EmbeddingService.similarity, one per candidate with a stored embedding.
\* No statement of the try block raises in the model, so the except branch
\* (the fallback again) is never entered.
SearchConversations(user, query, date_from, date_to, limit, o) ==
    LET query_embedding == GenerateEmbedding(provider, o, query)
        conversations == OrderByStartedDesc(
                            { c \in DOMAIN convs : Candidate(c, user, date_from, date_to) })
    IN  IF query_embedding = <<>>
        THEN [branch |-> "fallback",
              similarity_calls |-> 0,
              results |-> FallbackSearch(user, query, date_from, date_to, limit)]
        ELSE [branch |-> "embedding",
              similarity_calls |->
                  Cardinality({ c \in DOMAIN convs :
                                  /\ Candidate(c, user, date_from, date_to)
                                  /\ convs[c].embedding # <<>> }),
              results |-> Take(SortByScoreDesc(
                                  ScoreCandidates(conversations, query_embedding)),
                               limit)]

\* one call of search_conversations, with the arguments and the outcome of
\* the embedding call that sr holds
Search ==
    /\ ~sr.called
    /\ LET found == SearchConversations(sr.user, sr.query, sr.date_from,
                                        sr.date_to, sr.limit, sr.outcome)
       IN  sr' = [sr EXCEPT !.called = TRUE,
                            !.prov_result = GetEmbeddings(provider, sr.outcome, sr.query),
                            !.branch = found.branch,
                            !.similarity_calls = found.similarity_calls,
                            !.results = found.results]
    /\ UNCHANGED <<provider, convs, msgs, analysis, everEnded, req, call, audit>>

\* ---- the stores the search is applied to
SearchConvIds == 1..NumSearchConvs

Stored(user, title, status, summary, embedding, messages) ==
    [user |-> user, title |-> title, status |-> status, summary |-> summary,
     embedding |-> embedding, messages |-> messages]

UserRow(content) == [sender |-> "user", content |-> content, embedding |-> <<>>]

TripTitle == <<"t","r","i","p">>
HowToTitle == <<"H","o","w"," ","t","o">>
FineText == <<"f","i","n","e">>

\* the kinds of conversation a store holds
SearchProfiles ==
    { Stored("alice", TripTitle, "ended", FineText, <<1, 1, 0>>, <<>>),
      Stored("alice", TripTitle, "ended", NullText, <<2, 1, 0>>,
             <<UserRow(<<"H","o","w","?">>)>>),
      Stored("alice", HowToTitle, "active", NullText, <<>>, <<>>),
      Stored("alice", TripTitle, "ended", FineText, <<1, 0, 1>>,
             <<UserRow(<<"h","o","w">>), UserRow(<<"H","O","W">>)>>),
      Stored("alice", TripTitle, "ended", NullText, <<0, 0, 1>>, <<>>),
      Stored("alice", TripTitle, "ended", NullText, <<0, 1, 0>>,
             <<UserRow(<<"h","i">>),
               UserRow([i \in 1..(ExcerptLength + 2) |->
                           IF i = 1 THEN "H" ELSE IF i = 2 THEN "o"
                           ELSE IF i = 3 THEN "w" ELSE "x"]),
               UserRow(<<"h","o","w">>)>>),
      Stored("bob", HowToTitle, "ended", FineText, <<1, 1, 0>>, <<>>),
      Stored("alice", HowToTitle, "archived", FineText, <<1, 1, 0>>, <<>>) }

\* conversation c of a store started at time c, and ended one later unless
\* it is still active
SearchRow(c, prof) ==
    [NoConv EXCEPT !.exists = TRUE, !.user = prof.user, !.title = prof.title,
                   !.status = prof.status, !.started_at = c,
                   !.ended_at = IF prof.status = "active" THEN NullInt ELSE c + 1,
                   !.duration = IF prof.status = "active" THEN NullInt ELSE 1,
                   !.summary = prof.summary, !.embedding = prof.embedding]

SearchQueries == { <<"h","o","w">>, <<"z","z">> }
SearchVecs == { <<>>, <<1, 1, 0>>, <<1, 0>> }
SearchDates == {NullInt, 1, 2}
SearchLimits == 1..NumSearchConvs

\* valid arguments: a user, a non-blank query, optional dates, limit >= 1
SearchCalls ==
    [called : {FALSE}, user : Users, query : SearchQueries,
     date_from : SearchDates, date_to : SearchDates, limit : SearchLimits,
     outcome : EmbedOutcomesOver(SearchVecs), prov_result : {Returned(<<>>)},
     branch : {"none"}, similarity_calls : {0}, results : {<<>>}]

InitSearch ==
    /\ provider \in Providers
    /\ \E store \in [SearchConvIds -> SearchProfiles] :
         /\ convs = [c \in SearchConvIds |-> SearchRow(c, store[c])]
         /\ msgs = [c \in SearchConvIds |-> store[c].messages]
    /\ analysis = [c \in SearchConvIds |-> NoAnalysis]
    /\ everEnded = {}
    /\ req = [p \in Procs |-> Idle]
    /\ sr \in SearchCalls
    /\ call = NoCall
    /\ audit = <<>>

NextSearch == Search

SpecSearch == InitSearch /\ [][NextSearch]_vars

\* ------------------------------------------------- ChatService on its own
AiRow(content) == [sender |-> "ai", content |-> content, embedding |-> <<>>]

\* the stored messages of the conversation (short ones, and histories of
\* alternating senders around max_context_messages), the new user message
\* (stripped and not blank, as MessageCreateSerializer leaves it) and the
\* outcome of the Provider call
ChatStored ==
    LET History(n) ==
            [i \in 1..n |-> [sender |-> IF i % 2 = 1 THEN "user" ELSE "ai",
                             content |-> <<LowerCase[i]>>, embedding |-> <<>>]]
    IN  { <<>>, <<UserRow(<<"h","i">>), AiRow(FineText)>>,
          History(MaxContextMessages - 1), History(MaxContextMessages),
          History(MaxContextMessages + 1), History(MaxContextMessages + 2) }
ChatContents ==
    { <<"H","o","w","?">>, <<"o","k">>, <<"S","H","O","W">>, <<"n","o","w">> }
ChatCalls ==
    [fn : {"chat"}, done : {FALSE}, content : ChatContents,
     outcome : [kind : {"ok"}, text : ChatReplies \cup {<<>>}] \cup ChatFailures,
     context : {<<>>}, failed : {FALSE}, text : {<<>>}]

\* one call of ChatService.get_response
Chat ==
    /\ call.fn = "chat" /\ ~call.done
    /\ LET g == ChatGetResponse(provider, call.outcome, msgs[1], call.content)
       IN  call' = [call EXCEPT !.done = TRUE, !.context = g.context,
                                !.failed = g.failed, !.text = g.text]
    /\ UNCHANGED <<provider, convs, msgs, analysis, everEnded, req, sr, audit>>

InitChat ==
    /\ provider \in Providers
    /\ convs = [c \in {1} |-> [NoConv EXCEPT !.exists = TRUE, !.user = "alice",
                                             !.title = TripTitle,
                                             !.started_at = StartTime]]
    /\ msgs \in [{1} -> ChatStored]
    /\ analysis = [c \in {1} |-> NoAnalysis]
    /\ everEnded = {}
    /\ req = [p \in Procs |-> Idle]
    /\ sr = NoSearch
    /\ call \in ChatCalls
    /\ audit = <<>>

NextChat == Chat

SpecChat == InitChat /\ [][NextChat]_vars

\* --------------------------------------- ConversationSummarizer on its own
\* the stored messages of the conversation and the outcomes of the summary,
\* key-point and sentiment calls
SummaryStored ==
    { <<>>, <<UserRow(<<"h","i">>)>>, <<UserRow(<<"h","i">>), AiRow(FineText)>> }
SummaryReplies == { FineText, <<>> }
KeyPointReplies == { <<"[","\"","a","\"","]">>, <<"a","\n","b">>, <<"7">> }
SentimentReplies ==
    { <<" ","M","i","x","e","d">>, <<"g","l","a","d">>,
      <<"N","E","G","A","T","I","V","E","\n">>, <<"n","e","u","t","r","a","l">>,
      <<"p","o","s","i","t","i","v","e",".">>, <<>> }
SummaryCalls ==
    [fn : {"summary"}, done : {FALSE},
     o1 : [kind : {"ok"}, text : SummaryReplies] \cup ChatFailures,
     o2 : [kind : {"ok"}, text : KeyPointReplies] \cup ChatFailures,
     o3 : [kind : {"ok"}, text : SentimentReplies] \cup ChatFailures,
     result : {NoSummaryData}]

\* one call of ConversationSummarizer.generate_summary
Summary ==
    /\ call.fn = "summary" /\ ~call.done
    /\ call' = [call EXCEPT !.done = TRUE,
                            !.result = GenerateSummary(provider, msgs[1],
                                                       call.o1, call.o2, call.o3)]
    /\ UNCHANGED <<provider, convs, msgs, analysis, everEnded, req, sr, audit>>

InitSummary ==
    /\ provider \in Providers
    /\ convs = [c \in {1} |-> [NoConv EXCEPT !.exists = TRUE, !.user = "alice",
                                             !.title = TripTitle,
                                             !.status = "ended",
                                             !.started_at = StartTime,
                                             !.ended_at = StartTime + 1,
                                             !.duration = 1]]
    /\ msgs \in [{1} -> SummaryStored]
    /\ analysis = [c \in {1} |-> NoAnalysis]
    /\ everEnded = {1}
    /\ req = [p \in Procs |-> Idle]
    /\ sr = NoSearch
    /\ call \in SummaryCalls
    /\ audit = <<>>

NextSummary == Summary

SpecSummary == InitSummary /\ [][NextSummary]_vars


\* ------------------------------------ GeminiProvider.get_response on its own
GeminiModels == <<"gemini-2.0-flash", "gemini-1.5-pro", "gemini-pro">>

\* what the endpoint of one model does with the request: 404, another error
\* status, no answer at all, a body without candidates, or a reply
GeminiAnswers == {"404", "500", "transport", "no_candidates", "ok"}

\* a call on an instance whose model field is self.model (a new instance has
\* gemini-2.0-flash), against endpoints that answer as answers says
GeminiCalls ==
    [fn : {"gemini"}, done : {FALSE},
     fresh : BOOLEAN,
     model : {GeminiModels[i] : i \in 1..Len(GeminiModels)},
     answers : [{GeminiModels[i] : i \in 1..Len(GeminiModels)} -> GeminiAnswers],
     posted : {<<>>}, outcome : {"none"}]

GeminiStaysOnModel(model) == model

\* lines 174-182: the model the instance moves to on a 404
GeminiFallbackModel(model) ==
    CASE model = "gemini-2.0-flash" -> "gemini-1.5-pro"
      [] model = "gemini-1.5-pro" -> "gemini-pro"
      [] OTHER -> model

\* one requests.post of get_response and what follows it: on a 404 with a
\* model left to try the instance changes its model and the call starts
\* again; otherwise the call returns the text or raises
GeminiPost ==
    /\ call.fn = "gemini" /\ ~call.done
    /\ LET answer == call.answers[call.model]
           posted == Append(call.posted, call.model)
       IN  IF answer = "404" /\ GeminiFallbackModel(call.model) # call.model
           THEN call' = [call EXCEPT !.posted = posted,
                                     !.model = GeminiFallbackModel(call.model)]
           ELSE call' = [call EXCEPT !.posted = posted, !.done = TRUE,
                                     !.outcome = IF answer = "ok" THEN "returned"
                                                 ELSE "raised"]
    /\ UNCHANGED <<provider, convs, msgs, analysis, everEnded, req, sr, audit>>

InitGemini ==
    /\ provider = "gemini"
    /\ convs = [c \in {1} |-> NoConv]
    /\ msgs = [c \in {1} |-> <<>>]
    /\ analysis = [c \in {1} |-> NoAnalysis]
    /\ everEnded = {}
    /\ req = [p \in Procs |-> Idle]
    /\ sr = NoSearch
    /\ call \in { g \in GeminiCalls : g.fresh <=> g.model = GeminiModels[1] }
    /\ audit = <<>>

SpecGemini == InitGemini /\ [][GeminiPost]_vars

\* ------------------------------------------------ other services on their own
\* the calls: two vectors (or None) for similarity; a query, the search
\* results about the stored conversation and the outcome of the chat call
\* for generate_intelligence_response; the outcomes of the topic, entity
\* and action-item calls for analyze_conversation
ServiceCalls ==
    LET vectors == { [absent |-> TRUE, vec |-> <<>>] }
                   \cup [absent : {FALSE},
                         vec : { <<>>, <<0, 0>>, <<1, 0>>, <<0, 1>>, <<-1, 1>>,
                                 <<1, 1>>, <<1, 0, 1>> }]
        hit == [conversation |-> 1, similarity_score |-> FallbackScore,
                excerpt |-> FineText]
        replies == [kind : {"ok"},
                    text : { <<"a",","," ","b">>, <<"[","\"","a","\"","]">>,
                             <<"7">>, <<>> }]
                   \cup ChatFailures
    IN  [fn : {"similarity"}, done : {FALSE}, x : vectors, y : vectors,
         result : {ZeroScore}]
        \cup
        [fn : {"intelligence"}, done : {FALSE}, query : SearchQueries,
         search_results : {<<>>, <<hit>>, <<hit, hit>>},
         o : ChatOutcomes, result : {[text |-> <<>>, calls |-> 0]}]
        \cup
        [fn : {"analysis"}, done : {FALSE}, o1 : replies, o2 : replies,
         o3 : replies, result : {EmptyAnalysis}]

\* one call of EmbeddingService.similarity
SimilarityCall ==
    /\ call.fn = "similarity" /\ ~call.done
    /\ call' = [call EXCEPT !.done = TRUE,
                            !.result = SimilarityOrNone(call.x, call.y)]
    /\ UNCHANGED <<provider, convs, msgs, analysis, everEnded, req, sr, audit>>

\* one call of QueryEngine.generate_intelligence_response
IntelligenceCall ==
    /\ call.fn = "intelligence" /\ ~call.done
    /\ call' = [call EXCEPT !.done = TRUE,
                            !.result = GenerateIntelligenceResponse(
                                           provider, call.query,
                                           call.search_results, call.o)]
    /\ UNCHANGED <<provider, convs, msgs, analysis, everEnded, req, sr, audit>>

\* one call of QueryEngine.analyze_conversation
AnalysisCall ==
    /\ call.fn = "analysis" /\ ~call.done
    /\ call' = [call EXCEPT !.done = TRUE,
                            !.result = AnalyzeConversation(provider, msgs[1],
                                                           call.o1, call.o2, call.o3)]
    /\ UNCHANGED <<provider, convs, msgs, analysis, everEnded, req, sr, audit>>

InitServices ==
    /\ provider \in Providers
    /\ convs = [c \in {1} |-> SearchRow(1, Stored("alice", TripTitle, "ended",
                                                   FineText, <<1, 1, 0>>, <<>>))]
    /\ msgs \in [{1} -> { <<>>,
                           <<UserRow(<<"H","o","w","?">>), AiRow(<<"o","k","?">>),
                             UserRow(<<"h","i">>), UserRow(<<"?","!">>)>> }]
    /\ analysis = [c \in {1} |-> NoAnalysis]
    /\ everEnded = {1}
    /\ req = [p \in Procs |-> Idle]
    /\ sr = NoSearch
    /\ call \in ServiceCalls
    /\ audit = <<>>

NextServices == SimilarityCall \/ IntelligenceCall \/ AnalysisCall

SpecServices == InitServices /\ [][NextServices]_vars

\* --------------------------------------------- POST /intelligence/query/
\* CharField(max_length=1000) with the defaults trim_whitespace and
\* allow_blank=False: the value is stripped, and a blank one is refused.
\* No query of the model is longer than 1000 characters.
QueryField(value) ==
    LET stripped == Strip(value)
    IN  [valid |-> stripped # <<>>, value |-> stripped]

\* validate_query
ValidateQuery(value) ==
    [valid |-> value # <<>> /\ Strip(value) # <<>>, value |-> Strip(value)]

ValidateAnyRange(data) == TRUE

\* validate: both dates given and date_from > date_to is refused
Validate(data) ==
    ~ (/\ data.date_from # NullInt /\ data.date_to # NullInt
       /\ data.date_from > data.date_to)

\* is_valid: the fields with their validate_<field>, limit being an
\* IntegerField(min_value=1, max_value=50), then validate
IsValid(data) ==
    /\ QueryField(data.query).valid
    /\ ValidateQuery(QueryField(data.query).value).valid
    /\ data.limit >= 1 /\ data.limit <= 50
    /\ Validate(data)

\* query: a request that fails validation is answered 400 by
\* is_valid(raise_exception=True), ahead of the try block; a valid one is
\* searched and answered, the SearchQuery row is created and the answer is
\* 200.  calls counts the calls of the provider: one for the query
\* embedding and those of generate_intelligence_response.  No statement of
\* the try block raises in the model, so no request is answered 500.
Query ==
    /\ call.fn = "query" /\ ~call.done
    /\ IF ~IsValid(call)
       THEN /\ call' = [call EXCEPT !.done = TRUE, !.status = 400]
            /\ audit' = audit
       ELSE LET query_text == ValidateQuery(QueryField(call.query).value).value
                results == SearchConversations(call.user, query_text,
                                               call.date_from, call.date_to,
                                               call.limit, call.o_embed).results
                ai_response == GenerateIntelligenceResponse(provider, query_text,
                                                            results, call.o_chat)
            IN  /\ call' = [call EXCEPT !.done = TRUE, !.status = 200,
                                        !.calls = 1 + ai_response.calls,
                                        !.ai_response = ai_response.text,
                                        !.results_count = Len(results)]
                /\ audit' = Append(audit, [user |-> call.user,
                                           query_text |-> query_text,
                                           results_count |-> Len(results)])
    /\ UNCHANGED <<provider, convs, msgs, analysis, everEnded, req, sr>>

\* the stores of the search, and the requests: a query, optional dates, a
\* limit, and the outcomes the embedding call and the chat call would have
InitQuery ==
    /\ provider \in Providers
    /\ \E store \in [SearchConvIds -> SearchProfiles] :
         /\ convs = [c \in SearchConvIds |-> SearchRow(c, store[c])]
         /\ msgs = [c \in SearchConvIds |-> store[c].messages]
    /\ analysis = [c \in SearchConvIds |-> NoAnalysis]
    /\ everEnded = {}
    /\ req = [p \in Procs |-> Idle]
    /\ sr = NoSearch
    /\ call \in
          [fn : {"query"}, done : {FALSE}, user : Creators,
           query : { <<"h","o","w">>, <<" ","h","o","w"," ">>, <<" "," ">>, <<>> },
           date_from : SearchDates, date_to : SearchDates, limit : {0, 2},
           o_embed : { [kind |-> "ok", vec |-> <<>>], [kind |-> "ok", vec |-> <<1, 1, 0>>],
                       [kind |-> "transport", vec |-> <<>>] },
           o_chat : { [kind |-> "ok", text |-> FineText],
                      [kind |-> "transport", text |-> <<>>] },
           status : {0}, calls : {0}, ai_response : {<<>>}, results_count : {0}]
    /\ audit = <<>>

SpecQuery == InitQuery /\ [][Query]_vars

\* ================================================================= properties
\* ---- search (SpecSearch)

\* C1: for every provider and every outcome of the embedding call, a failed
\* embedding call sends search_conversations to the keyword fallback.
C1_FailureDegradesToFallback ==
    sr.called /\ sr.outcome.kind # "ok" => sr.branch = "fallback"

\* C4: the returned list is sorted by non-increasing similarity_score and
\* holds at most limit results, on both branches.
C4_SortedAndLimited ==
    sr.called =>
        /\ Len(sr.results) <= sr.limit
        /\ \A i, j \in 1..Len(sr.results) :
              i < j => ~ScoreGT(sr.results[j].similarity_score,
                                sr.results[i].similarity_score)

\* a candidate that passes the embedding branch's test for the call in sr
Qualifies(c) ==
    /\ Candidate(c, sr.user, sr.date_from, sr.date_to)
    /\ convs[c].embedding # <<>>
    /\ ScoreGT(Similarity(GenerateEmbedding(provider, sr.outcome, sr.query),
                          convs[c].embedding),
               SimilarityThreshold)

\* the embedding branch ranked two candidates, put the older one with the
\* higher score first and cut the list to limit = 1
C4_Witness ==
    /\ sr.called /\ sr.branch = "embedding"
    /\ sr.limit = 1 /\ Len(sr.results) = 1
    /\ \E c \in DOMAIN convs :
          /\ Qualifies(c)
          /\ c > sr.results[1].conversation
          /\ ScoreGT(sr.results[1].similarity_score,
                     Similarity(GenerateEmbedding(provider, sr.outcome, sr.query),
                                convs[c].embedding))

\* C5: every result of the embedding branch is a candidate with a stored
\* embedding whose cosine similarity to the query embedding is strictly
\* above 0.5, and that similarity is its score.
C5_EmbeddingBranchAboveThreshold ==
    sr.called /\ sr.branch = "embedding" =>
        \A i \in 1..Len(sr.results) :
            LET c == sr.results[i].conversation
            IN  /\ Qualifies(c)
                /\ sr.results[i].similarity_score =
                      Similarity(GenerateEmbedding(provider, sr.outcome, sr.query),
                                 convs[c].embedding)

\* the embedding branch returned a result and left out a candidate that
\* matches the query's words but has no stored embedding, and one whose
\* similarity is exactly 0.5
C5_Witness ==
    /\ sr.called /\ sr.branch = "embedding" /\ sr.results # <<>>
    /\ \E c \in DOMAIN convs :
          /\ Candidate(c, sr.user, sr.date_from, sr.date_to)
          /\ \/ convs[c].embedding = <<>> /\ MatchesQuery(c, sr.query)
             \/ Similarity(GenerateEmbedding(provider, sr.outcome, sr.query),
                           convs[c].embedding) = [num |-> 1, den2 |-> 4]
          /\ \A i \in 1..Len(sr.results) : sr.results[i].conversation # c

\* the fallback branch returns a conversation without a stored embedding
C5_FallbackReturnsUnembedded ==
    /\ sr.called /\ sr.branch = "fallback"
    /\ \E i \in 1..Len(sr.results) :
          convs[sr.results[i].conversation].embedding = <<>>

\* C14: when the embedding of the query text is empty, search_conversations
\* returns what _fallback_search returns for the same arguments and calls
\* similarity for no stored embedding.
C14_EmptyQueryEmbeddingFallsBack ==
    sr.called /\ GenerateEmbedding(provider, sr.outcome, sr.query) = <<>> =>
        /\ sr.branch = "fallback"
        /\ sr.results = FallbackSearch(sr.user, sr.query, sr.date_from,
                                       sr.date_to, sr.limit)
        /\ \A i \in 1..Len(sr.results) :
              sr.results[i].similarity_score = [num |-> 1, den2 |-> 4]
        /\ sr.similarity_calls = 0

\* the provider answered with an empty vector, a candidate with a stored
\* embedding exists, and the keyword search found something
C14_Witness ==
    /\ sr.called /\ sr.outcome = [kind |-> "ok", vec |-> <<>>]
    /\ sr.branch = "fallback" /\ sr.results # <<>>
    /\ sr.similarity_calls = 0
    /\ \E c \in DOMAIN convs :
          /\ Candidate(c, sr.user, sr.date_from, sr.date_to)
          /\ convs[c].embedding # <<>>

\* C19: every result of search_conversations, on either branch, is a
\* conversation of the searching user that is not archived, started at or
\* after date_from when one is given, and ended at or before date_to when
\* one is given.
C19_ResultsAreTheUsersOwn ==
    sr.called =>
        \A i \in 1..Len(sr.results) :
            LET conv == convs[sr.results[i].conversation]
            IN  /\ conv.user = sr.user
                /\ conv.status # "archived"
                /\ sr.date_from # NullInt => conv.started_at >= sr.date_from
                /\ sr.date_to # NullInt =>
                      conv.ended_at # NullInt /\ conv.ended_at <= sr.date_to

\* a search with both dates given returned a conversation and left out
\* another user's conversation that matches the query
C19_Witness ==
    /\ sr.called /\ sr.results # <<>>
    /\ sr.date_from # NullInt /\ sr.date_to # NullInt
    /\ \E c \in DOMAIN convs :
          /\ convs[c].user # sr.user
          /\ MatchesQuery(c, sr.query)
          /\ convs[c].embedding # <<>>

\* C22: every result of the fallback search is a candidate whose title or
\* one of whose messages contains the query without regard to case, no
\* conversation is in the results twice, and every similarity_score is 0.5.
C22_FallbackResults ==
    sr.called /\ sr.branch = "fallback" =>
        /\ \A i \in 1..Len(sr.results) :
              /\ Candidate(sr.results[i].conversation, sr.user,
                           sr.date_from, sr.date_to)
              /\ MatchesQuery(sr.results[i].conversation, sr.query)
              /\ sr.results[i].similarity_score = [num |-> 1, den2 |-> 4]
        /\ \A i, j \in 1..Len(sr.results) :
              sr.results[i].conversation = sr.results[j].conversation => i = j

\* the fallback returned, once, a conversation two of whose messages hold
\* the query, in different cases
C22_Witness ==
    /\ sr.called /\ sr.branch = "fallback" /\ sr.limit > 1
    /\ \E i \in 1..Len(sr.results) :
          LET rows == msgs[sr.results[i].conversation]
          IN  Cardinality({ k \in 1..Len(rows) :
                              Contains(Lower(rows[k].content), Lower(sr.query)) }) > 1

\* the stored messages of conversation c that hold the query, without
\* regard to case, in the order of the messages
MatchingMessages(c) ==
    SelectSeq(msgs[c], LAMBDA m : Contains(Lower(m.content), Lower(sr.query)))

HasSummary(c) == convs[c].summary # NullText /\ convs[c].summary # <<>>

\* C23: the excerpt of a fallback result is the stored summary when there
\* is one; else the first 150 characters of the first message that holds
\* the query; else, without such a message, 'No summary available'.
C23_FallbackExcerpt ==
    sr.called /\ sr.branch = "fallback" =>
        \A i \in 1..Len(sr.results) :
            LET c == sr.results[i].conversation
                excerpt == sr.results[i].excerpt
            IN  /\ HasSummary(c) => excerpt = convs[c].summary
                /\ ~HasSummary(c) /\ MatchingMessages(c) # <<>> =>
                      excerpt = Take(MatchingMessages(c)[1].content, 150)
                /\ ~HasSummary(c) /\ MatchingMessages(c) = <<>> =>
                      excerpt = <<"No summary available">>

\* as C23, but a message longer than 150 characters gives its first 150
\* characters followed by '...'
C23_ExcerptWithEllipsis ==
    sr.called /\ sr.branch = "fallback" =>
        \A i \in 1..Len(sr.results) :
            LET c == sr.results[i].conversation
                excerpt == sr.results[i].excerpt
            IN  /\ HasSummary(c) => excerpt = convs[c].summary
                /\ ~HasSummary(c) /\ MatchingMessages(c) # <<>> =>
                      LET content == MatchingMessages(c)[1].content
                      IN  excerpt = IF Len(content) > 150
                                    THEN Take(content, 150) \o <<"...">>
                                    ELSE content
                /\ ~HasSummary(c) /\ MatchingMessages(c) = <<>> =>
                      excerpt = <<"No summary available">>

\* the fallback returned a conversation without a summary whose first
\* message holding the query is longer than 150 characters
C23_Witness ==
    /\ sr.called /\ sr.branch = "fallback"
    /\ \E i \in 1..Len(sr.results) :
          LET c == sr.results[i].conversation
          IN  /\ ~HasSummary(c) /\ MatchingMessages(c) # <<>>
              /\ Len(MatchingMessages(c)[1].content) > 150

\* the fallback returned a conversation matched by its title alone, without
\* a summary
C23_TitleOnlyWitness ==
    /\ sr.called /\ sr.branch = "fallback"
    /\ \E i \in 1..Len(sr.results) :
          LET c == sr.results[i].conversation
          IN  /\ ~HasSummary(c) /\ MatchingMessages(c) = <<>>
              /\ sr.results[i].excerpt = <<"No summary available">>

\* C30: with a query embedding that is not empty the keyword fallback is
\* not used: when no candidate has a stored embedding whose similarity to
\* the query is above 0.5 the result is the empty list, whatever the titles
\* and messages of the candidates hold.
C30_NoFallbackAfterEmbedding ==
    LET query_embedding == GenerateEmbedding(provider, sr.outcome, sr.query)
    IN  sr.called /\ query_embedding # <<>> =>
            /\ sr.branch = "embedding"
            /\ (\A c \in DOMAIN convs :
                    Candidate(c, sr.user, sr.date_from, sr.date_to) =>
                        \/ convs[c].embedding = <<>>
                        \/ ~ScoreGT(Similarity(query_embedding, convs[c].embedding),
                                    [num |-> 1, den2 |-> 4]))
                => sr.results = <<>>

\* a search with a query embedding returned nothing although the title or a
\* message of a candidate holds the query
C30_Witness ==
    /\ sr.called /\ sr.branch = "embedding" /\ sr.results = <<>>
    /\ GenerateEmbedding(provider, sr.outcome, sr.query) # <<>>
    /\ \E c \in DOMAIN convs :
          /\ Candidate(c, sr.user, sr.date_from, sr.date_to)
          /\ MatchesQuery(c, sr.query)

\* C6: a failed embed call of any provider returns the empty vector: it
\* neither raises nor returns a substitute vector.
C6_FailedEmbedReturnsEmpty ==
    sr.called /\ sr.outcome.kind # "ok" => sr.prov_result = Returned(<<>>)

\* ---- chat (SpecChat)
HasQuestionKeyword(content) ==
    \E keyword \in QuestionKeywords : Contains(Lower(content), keyword)

\* C2: when the provider's chat call fails, get_response returns a non-empty
\* text: the question template around the first 50 characters of a message
\* that contains a question keyword, the plain template for a message that
\* contains none, and the two are different texts.
C2_FallbackByKeyword ==
    call.fn = "chat" /\ call.done /\ call.outcome.kind # "ok" =>
        /\ call.failed
        /\ call.text # <<>>
        /\ HasQuestionKeyword(call.content) =>
              call.text = <<QuestionTemplateHead>> \o Take(call.content, 50)
                          \o <<QuestionTemplateTail>>
        /\ ~HasQuestionKeyword(call.content) => call.text = <<PlainTemplate>>
        /\ HasQuestionKeyword(call.content) => call.text # <<PlainTemplate>>

\* a failed call answered a message that holds "how" in capitals with the
\* question template
C2_Witness ==
    /\ call.fn = "chat" /\ call.done /\ call.outcome.kind = "transport"
    /\ call.content = <<"S","H","O","W">>
    /\ Head(call.text) = QuestionTemplateHead

\* a failed call answered a message without a keyword with the plain template
C2_PlainWitness ==
    /\ call.fn = "chat" /\ call.done /\ call.outcome.kind = "non2xx"
    /\ call.content = <<"n","o","w">>
    /\ call.text = <<PlainTemplate>>

\* C21: the messages get_response passes to the provider are the system
\* instruction, then the min(20, n) newest of the n stored messages, oldest
\* first, with role assistant for the AI's and user for the others, then
\* the new user message; so they are at most 22 and older history is left
\* out.
C21_ContextAssembly ==
    call.fn = "chat" /\ call.done =>
        LET stored == msgs[1]
            n == Len(stored)
            k == IF n < 20 THEN n ELSE 20
            context == call.context
        IN  /\ Len(context) = k + 2
            /\ Len(context) <= 22
            /\ context[1] = [role |-> "system", content |-> <<SystemPrompt>>]
            /\ \A i \in 1..k :
                  context[1 + i] =
                      [role |-> IF stored[n - k + i].sender = "ai"
                                THEN "assistant" ELSE "user",
                       content |-> stored[n - k + i].content]
            /\ context[k + 2] = [role |-> "user", content |-> call.content]

\* a call on a conversation of 22 stored messages passed 22 messages, the
\* oldest of them the third stored one
C21_Witness ==
    /\ call.fn = "chat" /\ call.done
    /\ Len(msgs[1]) = 22 /\ Len(call.context) = 22
    /\ call.context[2].content = <<"c">>

\* ---- requests (Spec)

\* the worker's last request was an end request answered 200, and the step
\* starts the same user's next end request on the same conversation
SecondEnd(p) ==
    /\ req[p].pc = "done" /\ req[p].op = "end" /\ req[p].status = 200
    /\ req'[p] # req[p]
    /\ req'[p].op = "end"
    /\ req'[p].conv = req[p].conv /\ req'[p].user = req[p].user

\* C3: an end request that directly follows a successful end request on the
\* same conversation is answered 400, makes no provider call and leaves the
\* conversation row and the analysis record as they were.
C3_SecondEndRejected ==
    [][\A p \in SeqProcs :
          SecondEnd(p) =>
              /\ req'[p].pc = "done" /\ req'[p].status = 400
              /\ req'[p].calls = 0
              /\ convs' = convs
              /\ analysis' = analysis
              /\ msgs' = msgs]_vars

\* an end request was refused on a conversation that an earlier end request
\* ended, summarized and analysed
C3_Witness ==
    \E p \in SeqProcs :
        /\ req[p].pc = "done" /\ req[p].op = "end" /\ req[p].status = 400
        /\ convs[req[p].conv].status = "ended"
        /\ convs[req[p].conv].ended_at # NullInt
        /\ convs[req[p].conv].summary # NullText
        /\ analysis[req[p].conv].present

\* C7: a conversation whose stored status was never 'ended' has no summary,
\* no key points, no sentiment and no embedding.
C7_DerivedOnlyAfterEnded ==
    \A c \in DOMAIN convs :
        convs[c].exists /\ c \notin everEnded =>
            /\ convs[c].summary = NullText
            /\ convs[c].key_points = ListValue(<<>>)
            /\ convs[c].sentiment = "NULL"
            /\ convs[c].embedding = <<>>

\* C8: the conversation hook is not started by the save it makes itself, so
\* one save of a conversation costs one embedding call.
C8_HookNotReentered ==
    \A p \in Procs : req[p].depth <= 1

\* the other fields of a conversation row
SameButEmbedding(a, b) == [a EXCEPT !.embedding = b.embedding] = b

\* C9: the hooks leave the write that started them as it was written.  An
\* activation of the conversation hook changes no field of the row but the
\* embedding; one that gets no embedding changes nothing and returns to the
\* code after the save.  A message is stored with its sender and content for
\* every outcome of the embedding call, without an embedding when there is
\* none, and the request goes on to its next step.
C9_HookFailureKeepsWrite ==
    [][\A p \in SeqProcs :
          LET c == req[p].conv
          IN  /\ req[p].pc = "hook" =>
                    /\ SameButEmbedding(convs'[c], convs[c])
                    /\ req'[p].inst = convs'[c]
                    /\ req'[p].status # 500
              /\ req[p].pc = "hook" /\ req'[p].hook \in {"empty", "overflow"} =>
                    /\ convs' = convs
                    /\ IF req[p].cont = "done"
                       THEN req'[p].pc = "done" /\ req'[p].status = 200
                       ELSE req'[p].pc = req[p].cont
              /\ req[p].pc \in {"user_msg", "ai_msg"} =>
                    /\ Len(msgs'[c]) = Len(msgs[c]) + 1
                    /\ SubSeq(msgs'[c], 1, Len(msgs[c])) = msgs[c]
                    /\ msgs'[c][Len(msgs'[c])].sender =
                          (IF req[p].pc = "user_msg" THEN "user" ELSE "ai")
                    /\ msgs'[c][Len(msgs'[c])].content =
                          (IF req[p].pc = "user_msg" THEN req[p].content
                           ELSE req[p].reply)
                    /\ req'[p].hook = "empty" =>
                          msgs'[c][Len(msgs'[c])].embedding = <<>>
                    /\ req'[p].pc = (IF req[p].pc = "user_msg" THEN "chat"
                                     ELSE "done")
                    /\ req'[p].status # 500]_vars

\* an end request was answered 200 although its last embedding call gave
\* nothing: the row is ended and summarized, without an embedding
C9_Witness ==
    \E p \in SeqProcs :
        /\ req[p].pc = "done" /\ req[p].op = "end" /\ req[p].status = 200
        /\ req[p].hook = "empty"
        /\ convs[req[p].conv].status = "ended"
        /\ convs[req[p].conv].summary # NullText
        /\ convs[req[p].conv].embedding = <<>>

\* ---- summary (SpecSummary)

\* C10: generate_summary on a conversation without messages returns
\* 'No messages in conversation.', no key points and 'neutral', and makes no
\* provider call, whatever the provider would have answered.
C10_NoMessagesSummary ==
    call.fn = "summary" /\ call.done /\ msgs[1] = <<>> =>
        call.result = [summary |-> <<"No messages in conversation.">>,
                       key_points |-> ListValue(<<>>),
                       sentiment |-> "neutral",
                       calls |-> 0]

\* a conversation without messages was summarized while the provider was
\* out of reach
C10_Witness ==
    /\ call.fn = "summary" /\ call.done /\ msgs[1] = <<>>
    /\ call.o1.kind = "transport"
    /\ call.result.summary = <<NoMessagesSummary>>

\* the four labels, spelled as a reply spells them
LabelTexts ==
    { <<"p","o","s","i","t","i","v","e">>, <<"n","e","g","a","t","i","v","e">>,
      <<"n","e","u","t","r","a","l">>, <<"m","i","x","e","d">> }

\* C11: the sentiment of generate_summary's result is one of positive,
\* neutral, negative and mixed for every reply and every failure of the
\* provider, and a reply that is none of the four labels once trimmed and
\* lower-cased gives neutral.
C11_SentimentIsALabel ==
    call.fn = "summary" /\ call.done =>
        /\ call.result.sentiment \in {"positive", "neutral", "negative", "mixed"}
        /\ msgs[1] # <<>> /\ call.o3.kind = "ok"
              /\ Lower(Strip(call.o3.text)) \notin LabelTexts =>
              call.result.sentiment = "neutral"

\* the provider answered the sentiment prompt with a word that is no label,
\* and the result says neutral
C11_Witness ==
    /\ call.fn = "summary" /\ call.done /\ msgs[1] # <<>>
    /\ call.o3 = [kind |-> "ok", text |-> <<"p","o","s","i","t","i","v","e",".">>]
    /\ call.result.sentiment = "neutral"

\* C12: on a conversation with messages the three sub-calls of
\* generate_summary are all made, and each field is decided by its own
\* sub-call alone: its default ('Unable to generate summary.', no key
\* points, 'neutral') when that sub-call failed, the value read from the
\* reply when it succeeded.
C12_SubCallsFailIndependently ==
    call.fn = "summary" /\ call.done /\ msgs[1] # <<>> =>
        /\ call.result.calls = 3
        /\ call.result.summary =
              (IF call.o1.kind = "ok" THEN call.o1.text
               ELSE <<"Unable to generate summary.">>)
        /\ call.result.key_points =
              (IF call.o2.kind = "ok" THEN ParseListReply(call.o2.text, "\n")
               ELSE ListValue(<<>>))
        /\ call.result.sentiment =
              (IF call.o3.kind = "ok" /\ Lower(Strip(call.o3.text)) \in LabelTexts
               THEN SentimentLabel(Lower(Strip(call.o3.text)))
               ELSE "neutral")
        /\ call.o3.kind = "ok" /\ Lower(Strip(call.o3.text)) = <<"m","i","x","e","d">>
              => call.result.sentiment = "mixed"

\* the summary call failed, and the key points and the sentiment of the same
\* result come from the replies
C12_Witness ==
    /\ call.fn = "summary" /\ call.done /\ msgs[1] # <<>>
    /\ call.o1.kind = "transport"
    /\ call.o2 = [kind |-> "ok", text |-> <<"a","\n","b">>]
    /\ call.o3 = [kind |-> "ok", text |-> <<" ","M","i","x","e","d">>]
    /\ call.result.summary = <<UnableSummary>>
    /\ call.result.key_points = ListValue(<< <<"a">>, <<"b">> >>)
    /\ call.result.sentiment = "mixed"

\* C24: key_points of generate_summary is always a list of strings: the
\* decoded list when the reply to the key-point call is a JSON array of
\* strings, and the non-empty trimmed lines of the reply for every other
\* reply, a reply that decodes to a value that is no list included.
C24_KeyPointsAreAList ==
    call.fn = "summary" /\ call.done =>
        /\ call.result.key_points.kind = "list"
        /\ msgs[1] # <<>> /\ call.o2.kind = "ok"
           /\ ~IsJsonArray(Strip(call.o2.text)) =>
              call.result.key_points.items = SplitAndTrim(call.o2.text, "\n")

\* as C24, for the replies that are a JSON array of strings or no JSON
C24_KeyPointsUnlessScalar ==
    call.fn = "summary" /\ call.done
    /\ ~IsJsonNumber(Strip(call.o2.text)) /\ ~IsJsonString(Strip(call.o2.text)) =>
        /\ call.result.key_points.kind = "list"
        /\ msgs[1] # <<>> /\ call.o2.kind = "ok"
           /\ ~IsJsonArray(Strip(call.o2.text)) =>
              call.result.key_points.items = SplitAndTrim(call.o2.text, "\n")

\* a reply of two lines gave the two lines as key points
C24_LinesWitness ==
    /\ call.fn = "summary" /\ call.done /\ msgs[1] # <<>>
    /\ call.o2 = [kind |-> "ok", text |-> <<"a","\n","b">>]
    /\ call.result.key_points = ListValue(<< <<"a">>, <<"b">> >>)

\* ---- Gemini chat call (SpecGemini)

\* C13: a call on a new GeminiProvider posts to the models in the order
\* gemini-2.0-flash, gemini-1.5-pro, gemini-pro: each request but the first
\* follows a 404 of the model before, the call ends at the first model that
\* does not answer 404, it posts at most three times, and when gemini-pro
\* answers 404 too it raises.
C13_GeminiFallbackOrder ==
    call.fn = "gemini" /\ call.fresh =>
        /\ Len(call.posted) <= 3
        /\ \A i \in 1..Len(call.posted) :
              /\ call.posted[i] = GeminiModels[i]
              /\ i < Len(call.posted) => call.answers[call.posted[i]] = "404"
        /\ call.done =>
              /\ call.posted # <<>>
              /\ LET last == call.posted[Len(call.posted)]
                 IN  /\ call.answers[last] = "404" => last = "gemini-pro"
                     /\ call.outcome =
                           (IF call.answers[last] = "ok" THEN "returned"
                            ELSE "raised")

\* all three models answered 404 and the call raised after three requests
C13_Witness ==
    /\ call.fn = "gemini" /\ call.fresh /\ call.done
    /\ call.posted = GeminiModels
    /\ call.answers["gemini-pro"] = "404"
    /\ call.outcome = "raised"

\* the second model answered after the first was not found
C13_SecondModelAnswers ==
    /\ call.fn = "gemini" /\ call.fresh /\ call.done
    /\ call.posted = <<"gemini-2.0-flash", "gemini-1.5-pro">>
    /\ call.outcome = "returned"

\* ---- similarity, the answer to a query, analysis (SpecServices)

\* C15: similarity gives exactly 0.0 when a vector has norm zero (the empty
\* vector included) or an argument is None; it never divides by zero, and
\* every call returns a score.
C15_SimilarityZeroNorm ==
    call.fn = "similarity" /\ call.done =>
        /\ call.result.den2 > 0
        /\ call.x.absent \/ call.y.absent
              \/ Dot(call.x.vec, call.x.vec) = 0
              \/ Dot(call.y.vec, call.y.vec) = 0 =>
              call.result = [num |-> 0, den2 |-> 1]

\* similarity was called with a zero vector of the other vector's length
C15_Witness ==
    /\ call.fn = "similarity" /\ call.done
    /\ call.x = [absent |-> FALSE, vec |-> <<0, 0>>]
    /\ call.y = [absent |-> FALSE, vec |-> <<1, 1>>]
    /\ call.result = ZeroScore

\* C16: generate_intelligence_response answers an empty result list with
\* the 'no relevant conversations' message and no provider call; a list
\* with results costs exactly one provider call, whose reply is the answer
\* and whose failure gives the 'unable to generate response' message.
C16_IntelligenceResponse ==
    call.fn = "intelligence" /\ call.done =>
        IF call.search_results = <<>>
        THEN call.result =
                [text |-> <<"No relevant conversations found for your query.">>,
                 calls |-> 0]
        ELSE /\ call.result.calls = 1
             /\ call.result.text =
                   (IF call.o.kind = "ok" THEN call.o.text
                    ELSE <<"Unable to generate response. Please try again.">>)

\* the provider was out of reach for a query with results
C16_Witness ==
    /\ call.fn = "intelligence" /\ call.done
    /\ call.search_results # <<>> /\ call.o.kind = "transport"
    /\ call.result = [text |-> <<UnableMessage>>, calls |-> 1]

\* the top-level error of analyze_conversation in the model: the topics
\* reply decodes to a value that cannot be sliced
TopLevelError == call.o1.kind = "ok" /\ JsonLoads(call.o1.text).value.kind = "number"
                     /\ JsonLoads(call.o1.text).ok

\* what one sub-call of analyze_conversation gives for its field
FieldOf(o) == IF o.kind = "ok" THEN ParseListReply(o.text, ",") ELSE ListValue(<<>>)

\* C17: the result of analyze_conversation is the empty mapping only after
\* a top-level error; otherwise topics, entities and action items are each
\* decided by their own sub-call: the empty list when it failed, the value
\* read from the reply when it succeeded.
C17_AnalysisSubCallsIndependent ==
    call.fn = "analysis" /\ call.done =>
        /\ call.result.empty <=> TopLevelError
        /\ ~call.result.empty =>
              /\ call.result.topics = FieldOf(call.o1)
              /\ call.result.entities = FieldOf(call.o2)
              /\ call.result.action_items = FieldOf(call.o3)

\* the topics and the action-item calls failed, the entities call did not:
\* the result has the entities and two empty lists
C17_Witness ==
    /\ call.fn = "analysis" /\ call.done
    /\ call.o1.kind = "transport" /\ call.o3.kind = "non2xx"
    /\ call.o2 = [kind |-> "ok", text |-> <<"a",","," ","b">>]
    /\ ~call.result.empty
    /\ call.result.topics = ListValue(<<>>)
    /\ call.result.entities = ListValue(<< <<"a">>, <<"b">> >>)
    /\ call.result.action_items = ListValue(<<>>)

\* the contents of the user's stored messages that hold a question mark, in
\* the order of the messages
UserQuestions ==
    LET asked == SelectSeq(msgs[1], LAMBDA m : m.sender = "user"
                                               /\ \E i \in 1..Len(m.content) :
                                                     m.content[i] = "?")
    IN  [i \in 1..Len(asked) |-> asked[i].content]

\* C18: the result of analyze_conversation has questions_asked, and it is
\* the contents of the user's messages with a '?', in order, for every reply
\* and every failure of the topic, entity and action-item calls.
C18_QuestionsAskedLocal ==
    call.fn = "analysis" /\ call.done =>
        /\ ~call.result.empty
        /\ call.result.questions_asked = UserQuestions

\* short of a top-level error, questions_asked is as C18 says
C18_QuestionsUnlessTopLevelError ==
    call.fn = "analysis" /\ call.done /\ ~TopLevelError =>
        /\ ~call.result.empty
        /\ call.result.questions_asked = UserQuestions

\* two questions of the user were found while all three calls failed
C18_Witness ==
    /\ call.fn = "analysis" /\ call.done
    /\ call.o1.kind = "transport" /\ call.o2.kind = "transport"
    /\ call.o3.kind = "transport"
    /\ call.result.questions_asked = << <<"H","o","w","?">>, <<"?","!">> >>

\* ---- the intelligence query (SpecQuery)

\* C20: a request whose query is empty or only whitespace, or whose
\* date_from is later than its date_to, is answered 400, no call of the
\* provider is made for it and no SearchQuery row is written.
C20_InvalidQueryRejected ==
    call.fn = "query" /\ call.done
    /\ (\/ Strip(call.query) = <<>>
        \/ /\ call.date_from # NullInt /\ call.date_to # NullInt
           /\ call.date_from > call.date_to)
    => /\ call.status = 400
       /\ call.calls = 0
       /\ audit = <<>>

\* a request with a proper query and limit whose date_from is later than
\* its date_to was answered
C20_Witness ==
    /\ call.fn = "query" /\ call.done
    /\ Strip(call.query) # <<>> /\ call.limit = 2
    /\ call.date_from # NullInt /\ call.date_to # NullInt
    /\ call.date_from > call.date_to
    /\ call.status = 400

\* a request with a query of blanks and no dates was answered
C20_BlankWitness ==
    /\ call.fn = "query" /\ call.done
    /\ call.query = <<" ", " ">> /\ call.limit = 2
    /\ call.date_from = NullInt /\ call.date_to = NullInt
    /\ call.status = 400

\* a valid request was answered 200 after two calls of the provider, and
\* its row was written
C20_ServedWitness ==
    /\ call.fn = "query" /\ call.done
    /\ call.status = 200 /\ call.calls = 2 /\ Len(audit) = 1

\* ---- send_message (Spec)

\* C25: a send_message request answered 201 has stored two messages after
\* those the conversation held, the user's message and then the AI's with
\* the reply, which is the fallback text when the chat call failed; one
\* refused because the conversation is not active has stored no message and
\* called no provider.
C25_SendPersistsTwo ==
    \A p \in Procs :
        req[p].op = "send" /\ req[p].pc = "done" =>
            LET r == req[p]
                rows == msgs[r.conv]
            IN  /\ r.status = 201 =>
                      /\ IsActive(r.inst)
                      /\ Len(rows) = r.base + 2
                      /\ rows[r.base + 1].sender = "user"
                      /\ rows[r.base + 1].content = r.content
                      /\ rows[r.base + 2].sender = "ai"
                      /\ rows[r.base + 2].content = r.reply
                      /\ r.reply # <<>>
                      /\ r.chat_failed =>
                            Head(r.reply) \in {QuestionTemplateHead, PlainTemplate}
                /\ r.status = 400 =>
                      /\ ~IsActive(convs[r.conv])
                      /\ Len(rows) = r.base
                      /\ r.calls = 0

\* a request whose chat call failed was answered 201 with the fallback text
\* in the AI message
C25_Witness ==
    \E p \in Procs :
        /\ req[p].op = "send" /\ req[p].pc = "done" /\ req[p].status = 201
        /\ req[p].chat_failed
        /\ Len(msgs[req[p].conv]) = 2
        /\ Head(msgs[req[p].conv][2].content) = QuestionTemplateHead

\* a request on an ended conversation was refused
C25_RefusedWitness ==
    \E p \in Procs :
        /\ req[p].op = "send" /\ req[p].pc = "done" /\ req[p].status = 400
        /\ convs[req[p].conv].status = "ended"

\* C26: the messages send_message has ChatService pass to the provider
\* hold the new user message once, as the last element (for a message whose
\* content no earlier message of the conversation has).
C26_NewMessageOnce ==
    \A p \in Procs :
        LET r == req[p]
            new == [role |-> "user", content |-> r.content]
        IN  /\ r.op = "send" /\ r.context # <<>>
            /\ \A i \in 1..r.base : msgs[r.conv][i].content # r.content
            => /\ r.context[Len(r.context)] = new
               /\ Cardinality({ i \in 1..Len(r.context) : r.context[i] = new }) = 1

\* the new user message is the last element of the context
C26_NewMessageLast ==
    \A p \in Procs :
        req[p].op = "send" /\ req[p].context # <<>> =>
            req[p].context[Len(req[p].context)] =
                [role |-> "user", content |-> req[p].content]

\* ---- lifecycle (Spec)

\* C29: a conversation whose status was ever ended is never active again.
C29_EndedStaysEnded ==
    \A c \in everEnded : convs[c].status # "active"

\* an end request is accepted only for a conversation that never ended, so
\* no conversation is summarized twice
C29_EndedOnce ==
    [][\A p \in Procs :
          req'[p].op = "end" /\ req'[p].pc = "end_save" /\ req[p].pc # "end_save"
          => req'[p].conv \notin everEnded]_vars

\* ---- concurrent requests (SpecConcurrent)

\* the end request of worker p passed the is_active check
EndAccepted(p) ==
    /\ req[p].op = "end"
    /\ req[p].pc # "idle"
    /\ ~ (req[p].pc = "done" /\ req[p].status \in {400, 404})

\* C27: of the end requests served at the same time on one active
\* conversation at most one passes the is_active check, ends the
\* conversation and generates its summary and analysis; the others are
\* answered 400.
C27_OneEndWins ==
    \A p, q \in Procs :
        p # q /\ req[p].conv = req[q].conv
        => ~ (EndAccepted(p) /\ EndAccepted(q))

\* both workers ended the same conversation and each generated a summary
C27_BothSummarized ==
    \A p, q \in Procs :
        p # q /\ req[p].conv = req[q].conv
        => ~ (/\ req[p].op = "end" /\ req[p].pc = "done" /\ req[p].status = 200
              /\ req[q].op = "end" /\ req[q].pc = "done" /\ req[q].status = 200
              /\ req[p].summarized /\ req[q].summarized)

\* C28: once the status of a conversation is ended no step creates a
\* message in it.
C28_NoMessageAfterEnded ==
    [][\A c \in DOMAIN convs :
          convs[c].status = "ended" => msgs'[c] = msgs[c]]_vars

\* the transcript an end request summarized is the whole of the
\* conversation's messages
C28_SummarizedIsFinal ==
    \A p \in Procs :
        req[p].op = "end" /\ req[p].summarized =>
            req[p].seen = Len(msgs[req[p].conv])

====
